---- MODULE Spec2Model ----
(***************************************************************************)
(* The voice-call dialog controller of SPARK-AI-AGENT: the per-call        *)
(* session map, the /call/start and /call/input handlers and the output    *)
(* sanitizer, for the two drafts of the server that the repository holds   *)
(* (src/server.js and src/unnamed/part_000).                               *)
(*                                                                         *)
(* Text is modelled as TLA+ strings, scanned character by character        *)
(* (SubSeq on a string is its substring). The source's two non-ASCII       *)
(* characters are transliterated in the prompt texts: the typographic      *)
(* apostrophe is written ' and the pound sign is written GBP; neither is   *)
(* part of any phrase the code scans for.                                  *)
(***************************************************************************)
EXTENDS Integers, Sequences, FiniteSets, TLC

VARIABLES
    draft,      \* which of the two servers is running
    callState,  \* the Map callState: CallSid -> {transcript, stage, data}
    prompt,     \* the text the last request handed to sayGather
    response,   \* the text of the <Say> of the last response sent
    loop        \* the event loop: the objects the handlers hold, the requests
                \* received and how far the handler of each has run

vars == <<draft, callState, prompt, response, loop>>

(***************************************************************************)
(* Bounds and inputs                                                       *)
(***************************************************************************)
\* No call receives more than MaxTurns non-empty turns.
MaxTurns == 4

\* Two calls in progress at once receive no more than MaxCallTurns non-empty
\* turns between them.
MaxCallTurns == 2

\* The event loop receives no more than MaxRequests requests.
MaxRequests == 2

Drafts == {"server.js", "part_000"}

CallSids == {"CA1"}

\* The call identifiers of two calls in progress at once.
TwoCalls == {"CA1", "CA2"}

\* The values of req.body.SpeechResult that the transport delivers
\* ("" also stands for an absent SpeechResult).
Texts ==
    { "", "  ",
      "office", " office ",
      "I need someone for my flat",
      "it's for my office and my house",
      "home office",
      "Domestic or commercial",
      "deep clean",
      "just a one-off",
      "once, not recurring",
      "that'll be 50 dollars right?",
      "is 50 USD ok for the office?" }

NoResponse == ""

(***************************************************************************)
(* JavaScript string and object primitives                                 *)
(***************************************************************************)
UpperCase == "ABCDEFGHIJKLMNOPQRSTUVWXYZ"
LowerCase == "abcdefghijklmnopqrstuvwxyz"
WhiteSpace == {" ", "\t", "\n"}

lowerChar(ch) ==
    IF \E i \in 1..Len(UpperCase) : SubSeq(UpperCase, i, i) = ch
    THEN LET i == CHOOSE j \in 1..Len(UpperCase) : SubSeq(UpperCase, j, j) = ch
         IN SubSeq(LowerCase, i, i)
    ELSE ch

\* String.prototype.toLowerCase, character by character (the string is
\* halved at each level to keep the evaluation shallow).
RECURSIVE toLowerCase(_)
toLowerCase(s) ==
    IF Len(s) <= 1 THEN lowerChar(s)
    ELSE LET h == Len(s) \div 2
         IN  toLowerCase(SubSeq(s, 1, h)) \o toLowerCase(SubSeq(s, h + 1, Len(s)))

\* String.prototype.includes
includes(t, x) ==
    \E i \in 0..(Len(t) - Len(x)) : SubSeq(t, i + 1, i + Len(x)) = x

RECURSIVE trimStart(_)
trimStart(s) ==
    IF s # "" /\ SubSeq(s, 1, 1) \in WhiteSpace THEN trimStart(Tail(s)) ELSE s

RECURSIVE trimEnd(_)
trimEnd(s) ==
    IF s # "" /\ SubSeq(s, Len(s), Len(s)) \in WhiteSpace
    THEN trimEnd(SubSeq(s, 1, Len(s) - 1))
    ELSE s

\* String.prototype.trim
trim(s) == trimEnd(trimStart(s))

\* An object with no keys: {}
EmptyObject == [k \in {} |-> ""]

\* obj.k = v, and map.set(k, v)
Put(obj, k, v) == [x \in (DOMAIN obj) \cup {k} |-> IF x = k THEN v ELSE obj[x]]

\* The truthiness of obj.k: a missing key is undefined, "" is falsy.
Truthy(obj, k) == k \in DOMAIN obj /\ obj[k] # ""

\* obj.k, with "" for undefined
Get(obj, k) == IF k \in DOMAIN obj THEN obj[k] ELSE ""

(***************************************************************************)
(* src/server.js: the prompts                                              *)
(***************************************************************************)
GbpClarification ==
    "Sorry, that's in pounds. I will quote in GBP only. Is the cleaning for a home or a business premises?"
Greeting ==
    "Hi, you're through to TotalSpark Solutions. Is the cleaning for a home or for a business premises?"
DidntCatch ==
    "Sorry, I didn't catch that. Is the cleaning for a home or for a business premises?"
CategoryRePrompt ==
    "Thanks. Is it for a home, like a flat or house, or for a business, like an office or shop?"
CommercialTypePrompt ==
    "Thanks. What type of commercial cleaning do you need? For example regular commercial cleaning, deep clean, post-construction, or disinfection."
DomesticTypePrompt ==
    "Thanks. What type of domestic cleaning do you need? For example end of tenancy, deep clean, regular cleaning, post-construction, or disinfection."
JobTypePrompt ==
    "Is this a one-time clean or an ongoing service?"
JobTypeRePrompt ==
    "Just to confirm, is it a one-time clean, or ongoing regular visits?"
PropertyPrompt ==
    "Thanks. What's the property type and postcode?"
RoomsPrompt ==
    "Thanks. Next I will ask about rooms and any extras. For now, tell me the number of bedrooms and bathrooms."
DefaultPrompt ==
    "Thanks. I will ask the next detail. What's the postcode?"

(***************************************************************************)
(* src/server.js: output sanitization                                      *)
(***************************************************************************)
\* Mutant of containsDollar: the text is not lower-cased before the scan.
containsDollarCaseSensitive(text) ==
    includes(text, "$") \/ includes(text, "usd") \/ includes(text, "dollar")
        \/ includes(text, "bucks")

containsDollar(text) ==
    LET t == toLowerCase(text)
    IN  includes(t, "$") \/ includes(t, "usd") \/ includes(t, "dollar")
            \/ includes(t, "bucks")

enforceGbpSpeech(text) ==
    IF text = "" THEN text
    ELSE IF containsDollar(text) THEN GbpClarification
    ELSE text

\* The text of the <Say> verb that sayGather puts in the response.
sayGather(text) == enforceGbpSpeech(text)

\* The texts the handlers hand to sayGather, and what sayGather says for
\* each (tabulated: it depends on the text alone).
Prompts ==
    { Greeting, DidntCatch, CategoryRePrompt, CommercialTypePrompt,
      DomesticTypePrompt, JobTypePrompt, JobTypeRePrompt, PropertyPrompt,
      RoomsPrompt, DefaultPrompt }
SayOf == [text \in Prompts |-> sayGather(text)]

(***************************************************************************)
(* src/server.js: the session store                                        *)
(***************************************************************************)
\* callState after getState(callSid): the session is created when missing.
getState(cs, callSid) ==
    IF callSid \in DOMAIN cs THEN cs
    ELSE Put(cs, callSid, [transcript |-> <<>>, stage |-> "start", data |-> EmptyObject])

(***************************************************************************)
(* src/server.js: extraction rules                                         *)
(***************************************************************************)
domesticHints ==
    {"home", "house", "flat", "apartment", "studio", "tenancy", "landlord",
     "move out", "move-out"}
commercialHints ==
    {"office", "shop", "warehouse", "school", "clinic", "gym", "venue", "site",
     "business", "restaurant", "workplace"}

detectCategory(text) ==
    LET t == toLowerCase(text)
        d == \E x \in domesticHints : includes(t, x)
        c == \E x \in commercialHints : includes(t, x)
    IN  IF d /\ ~c THEN "domestic"
        ELSE IF c /\ ~d THEN "commercial"
        ELSE ""

\* The category after the direct-answer check, which runs when the broad
\* check returned "": the second assignment overrides the first.
directAnswer(speech, category) ==
    IF category # "" THEN category
    ELSE LET t == toLowerCase(speech)
             c1 == IF includes(t, "home") \/ includes(t, "domestic")
                   THEN "domestic" ELSE category
         IN  IF includes(t, "business") \/ includes(t, "commercial")
             THEN "commercial" ELSE c1

\* The value the two job-type assignments of stage 3 leave in
\* state.data.job_type ("" when neither assigns): the second overrides the
\* first.
jobType(speech) ==
    LET t == toLowerCase(speech)
        j1 == IF includes(t, "one") \/ includes(t, "once")
                    \/ includes(t, "one-off") \/ includes(t, "one off")
              THEN "one_time" ELSE ""
    IN  IF includes(t, "ongoing") \/ includes(t, "regular")
            \/ includes(t, "weekly") \/ includes(t, "monthly")
            \/ includes(t, "recurring")
        THEN "regular" ELSE j1

\* The extraction rules depend on the text alone: they are tabulated over
\* the texts a turn can carry.
SpeechOf == [SpeechResult \in Texts |-> trim(SpeechResult)]
Speeches == {SpeechOf[SpeechResult] : SpeechResult \in Texts}
CategoryOf == [speech \in Speeches |-> directAnswer(speech, detectCategory(speech))]
JobTypeOf == [speech \in Speeches |-> jobType(speech)]

(***************************************************************************)
(* src/server.js: the stage machine. Each stage gives the session after    *)
(* the turn and the prompt handed to sayGather.                            *)
(***************************************************************************)
\* Mutant of categoryStage: a failed extraction is answered with the generic
\* prompt of an empty turn.
categoryStageGenericRePrompt(state, speech) ==
    LET category == CategoryOf[speech]
    IN  IF category = ""
        THEN [state |-> state, say |-> DidntCatch]
        ELSE [state |-> [state EXCEPT
                            !.data = Put(@, "service_category", category),
                            !.stage = "need_service_type"],
              say |-> IF category = "commercial" THEN CommercialTypePrompt
                      ELSE DomesticTypePrompt]

\* Stage 1: Category
categoryStage(state, speech) ==
    LET category == CategoryOf[speech]
    IN  IF category = ""
        THEN [state |-> state, say |-> CategoryRePrompt]
        ELSE [state |-> [state EXCEPT
                            !.data = Put(@, "service_category", category),
                            !.stage = "need_service_type"],
              say |-> IF category = "commercial" THEN CommercialTypePrompt
                      ELSE DomesticTypePrompt]

\* Mutant of serviceTypeStage: the text is stored in both service-type fields.
serviceTypeStageBothFields(state, speech) ==
    LET raw == Put(state.data, "service_type_raw", speech)
        both == Put(Put(raw, "commercial_service_type", speech),
                    "domestic_service_type", speech)
    IN  IF Get(raw, "service_category") = "commercial"
        THEN [state |-> [state EXCEPT !.data = both, !.stage = "need_job_type"],
              say |-> JobTypePrompt]
        ELSE [state |-> [state EXCEPT !.data = both,
                                      !.stage = "need_property_and_postcode"],
              say |-> PropertyPrompt]

\* Mutant of serviceTypeStage: the category test is inverted, so a domestic
\* call is asked for its job type and a commercial call is not.
serviceTypeStageInverted(state, speech) ==
    LET raw == Put(state.data, "service_type_raw", speech)
    IN  IF Get(raw, "service_category") # "commercial"
        THEN [state |-> [state EXCEPT
                            !.data = Put(Put(raw, "commercial_service_type", speech),
                                         "domestic_service_type", ""),
                            !.stage = "need_job_type"],
              say |-> JobTypePrompt]
        ELSE [state |-> [state EXCEPT
                            !.data = Put(Put(raw, "domestic_service_type", speech),
                                         "commercial_service_type", ""),
                            !.stage = "need_property_and_postcode"],
              say |-> PropertyPrompt]

\* Stage 2: Service type
serviceTypeStage(state, speech) ==
    LET raw == Put(state.data, "service_type_raw", speech)
    IN  IF Get(raw, "service_category") = "commercial"
        THEN [state |-> [state EXCEPT
                            !.data = Put(Put(raw, "commercial_service_type", speech),
                                         "domestic_service_type", ""),
                            !.stage = "need_job_type"],
              say |-> JobTypePrompt]
        ELSE [state |-> [state EXCEPT
                            !.data = Put(Put(raw, "domestic_service_type", speech),
                                         "commercial_service_type", ""),
                            !.stage = "need_property_and_postcode"],
              say |-> PropertyPrompt]

\* Mutant of jobTypeStage: a failed extraction sends the caller back to the
\* service-type stage.
jobTypeStageStepBack(state, speech) ==
    LET data == IF JobTypeOf[speech] # ""
                THEN Put(state.data, "job_type", JobTypeOf[speech])
                ELSE state.data
    IN  IF ~Truthy(data, "job_type")
        THEN [state |-> [state EXCEPT !.data = data, !.stage = "need_service_type"],
              say |-> JobTypeRePrompt]
        ELSE [state |-> [state EXCEPT !.data = data,
                                      !.stage = "need_property_and_postcode"],
              say |-> PropertyPrompt]

\* Stage 3: Job type for commercial
jobTypeStage(state, speech) ==
    LET data == IF JobTypeOf[speech] # ""
                THEN Put(state.data, "job_type", JobTypeOf[speech])
                ELSE state.data
    IN  IF ~Truthy(data, "job_type")
        THEN [state |-> [state EXCEPT !.data = data], say |-> JobTypeRePrompt]
        ELSE [state |-> [state EXCEPT !.data = data,
                                      !.stage = "need_property_and_postcode"],
              say |-> PropertyPrompt]

\* Mutant of propertyStage: a cadence is filled in when none was asked for.
propertyStageDefaultsJobType(state, speech) ==
    [state |-> [state EXCEPT
                   !.data = Put(Put(@, "property_and_postcode_raw", speech),
                                "job_type",
                                IF Truthy(@, "job_type") THEN @["job_type"]
                                ELSE "one_time"),
                   !.stage = "next"],
     say |-> RoomsPrompt]

\* Stage 4: Property + postcode
propertyStage(state, speech) ==
    [state |-> [state EXCEPT
                   !.data = Put(@, "property_and_postcode_raw", speech),
                   !.stage = "next"],
     say |-> RoomsPrompt]

\* Mutant of pushSpeech: the text is put at the front (unshift for push).
pushSpeechFront(state, speech) ==
    IF speech # "" THEN [state EXCEPT !.transcript = <<speech>> \o @]
    ELSE state

\* Mutant of pushSpeech: the push is not guarded by if (speech).
pushSpeechAlways(state, speech) ==
    [state EXCEPT !.transcript = Append(@, speech)]

\* Mutant of pushSpeech: the lower-cased text is pushed.
pushSpeechLower(state, speech) ==
    IF speech # "" THEN [state EXCEPT !.transcript = Append(@, toLowerCase(speech))]
    ELSE state

\* if (speech) state.transcript.push(speech)
pushSpeech(state, speech) ==
    IF speech # "" THEN [state EXCEPT !.transcript = Append(@, speech)]
    ELSE state

\* Mutant of inputTurn: after the last stage the default branch starts the
\* intake over.
inputTurnStartsOver(state, speech) ==
    LET pushed == pushSpeech(state, speech)
    IN  IF speech = "" THEN [state |-> pushed, say |-> DidntCatch]
        ELSE IF pushed.stage = "need_category" THEN categoryStage(pushed, speech)
        ELSE IF pushed.stage = "need_service_type" THEN serviceTypeStage(pushed, speech)
        ELSE IF pushed.stage = "need_job_type" THEN jobTypeStage(pushed, speech)
        ELSE IF pushed.stage = "need_property_and_postcode" THEN propertyStage(pushed, speech)
        ELSE [state |-> [pushed EXCEPT !.stage = "need_category"],
              say |-> DefaultPrompt]

\* The body of the /call/input handler after getState: state is the session
\* and speech the trimmed SpeechResult.
inputTurn(state, speech) ==
    LET pushed == pushSpeech(state, speech)
    IN  IF speech = "" THEN [state |-> pushed, say |-> DidntCatch]
        ELSE IF pushed.stage = "need_category" THEN categoryStage(pushed, speech)
        ELSE IF pushed.stage = "need_service_type" THEN serviceTypeStage(pushed, speech)
        ELSE IF pushed.stage = "need_job_type" THEN jobTypeStage(pushed, speech)
        ELSE IF pushed.stage = "need_property_and_postcode" THEN propertyStage(pushed, speech)
        ELSE [state |-> pushed, say |-> DefaultPrompt]

(***************************************************************************)
(* src/server.js: the handlers                                             *)
(***************************************************************************)
\* Mutant of CallStart: the whole map is replaced by a new one that holds
\* the started call alone.
CallStartClearsAll(callSid) ==
    /\ draft = "server.js"
    /\ callState' = Put(EmptyObject, callSid,
                        [transcript |-> <<>>, stage |-> "need_category",
                         data |-> EmptyObject])
    /\ prompt' = Greeting
    /\ response' = SayOf[Greeting]
    /\ UNCHANGED <<draft, loop>>

\* POST /call/start
CallStart(callSid) ==
    /\ draft = "server.js"
    /\ callState' = Put(callState, callSid,
                        [transcript |-> <<>>, stage |-> "need_category",
                         data |-> EmptyObject])
    /\ prompt' = Greeting
    /\ response' = SayOf[Greeting]
    /\ UNCHANGED <<draft, loop>>

\* Mutant of CallInput: the caller's text is run through the sanitizer too,
\* and a currency marker in it is answered with the clarification.
CallInputSanitizesCaller(callSid, SpeechResult) ==
    /\ draft = "server.js"
    /\ LET speech == SpeechOf[SpeechResult]
           cs == getState(callState, callSid)
           out == inputTurn(cs[callSid], speech)
       IN  /\ callState' = [cs EXCEPT ![callSid] = out.state]
           /\ prompt' = out.say
           /\ response' = IF containsDollar(speech) THEN GbpClarification
                          ELSE SayOf[out.say]
    /\ UNCHANGED <<draft, loop>>

\* POST /call/input
CallInput(callSid, SpeechResult) ==
    /\ draft = "server.js"
    /\ LET speech == SpeechOf[SpeechResult]
           cs == getState(callState, callSid)
           out == inputTurn(cs[callSid], speech)
       IN  /\ callState' = [cs EXCEPT ![callSid] = out.state]
           /\ prompt' = out.say
           /\ response' = SayOf[out.say]
    /\ UNCHANGED <<draft, loop>>

(***************************************************************************)
(* src/unnamed/part_000: the second draft of the same server               *)
(***************************************************************************)
GbpClarification2 ==
    "Sorry, I only quote in pounds. Is the cleaning for a home or for a business premises?"
Greeting2 ==
    "Hi, you're through to TotalSpark Solutions. Is the cleaning for a home or for a business premises?"
DidntCatch2 ==
    "Sorry, I didn't catch that. Is this for a home or a business premises?"
CategoryRePrompt2 ==
    "Thanks. Is the cleaning for a home or for a business premises?"
DomesticTypePrompt2 ==
    "What type of domestic cleaning do you need. End of tenancy, deep clean, regular cleaning, post-construction, or disinfection?"
CommercialTypePrompt2 ==
    "What type of commercial cleaning do you need. Regular commercial cleaning, deep clean, post-construction, or disinfection?"
PropertyPrompt2 ==
    "Thanks. What is the property type and the postcode?"

ensureGbpOnly(text) ==
    IF containsDollar(text) THEN GbpClarification2 ELSE text

sayGather2(text) == ensureGbpOnly(text)

Prompts2 ==
    { Greeting2, DidntCatch2, CategoryRePrompt2, DomesticTypePrompt2,
      CommercialTypePrompt2, PropertyPrompt2 }
SayOf2 == [text \in Prompts2 |-> sayGather2(text)]

domesticHints2 ==
    {"home", "house", "flat", "apartment", "studio", "tenancy", "move out",
     "landlord"}
commercialHints2 ==
    {"office", "shop", "warehouse", "school", "clinic", "gym", "venue", "site",
     "business", "restaurant", "workplace"}

\* The category the turn's text mentions alone ("" when it mentions both
\* or neither).
mentioned2(speech) ==
    LET lower == toLowerCase(speech)
        mentionedDomestic == \E x \in domesticHints2 : includes(lower, x)
        mentionedCommercial == \E x \in commercialHints2 : includes(lower, x)
    IN  IF mentionedDomestic /\ ~mentionedCommercial THEN "domestic"
        ELSE IF mentionedCommercial /\ ~mentionedDomestic THEN "commercial"
        ELSE ""
MentionedOf2 == [speech \in Speeches |-> mentioned2(speech)]

\* Mutant of categoryData2: the category is written whether or not one is
\* already set.
categoryData2Unguarded(data, speech) ==
    IF MentionedOf2[speech] # ""
    THEN Put(data, "service_category", MentionedOf2[speech])
    ELSE data

\* state.data after the category detection of a non-empty turn: the
\* category is written only while state.data.service_category is unset.
categoryData2(data, speech) ==
    IF ~Truthy(data, "service_category") /\ MentionedOf2[speech] # ""
    THEN Put(data, "service_category", MentionedOf2[speech])
    ELSE data

\* Mutant of inputTurn2: the answer to the service-type question is stored
\* as service_type.
inputTurn2StoresServiceType(state, speech) ==
    LET pushed == IF speech # ""
                  THEN [state EXCEPT !.transcript = Append(@, speech)]
                  ELSE state
        data == IF speech = "" THEN pushed.data
                ELSE IF Truthy(pushed.data, "service_category")
                     THEN Put(pushed.data, "service_type", speech)
                ELSE categoryData2(pushed.data, speech)
        after == [pushed EXCEPT !.data = data]
    IN  IF speech = "" THEN [state |-> pushed, say |-> DidntCatch2]
        ELSE IF ~Truthy(data, "service_category")
             THEN [state |-> after, say |-> CategoryRePrompt2]
        ELSE IF ~Truthy(data, "service_type")
             THEN [state |-> after,
                   say |-> IF data["service_category"] = "domestic"
                           THEN DomesticTypePrompt2 ELSE CommercialTypePrompt2]
        ELSE [state |-> after, say |-> PropertyPrompt2]

\* The body of the second draft's /call/input handler: state is the session
\* found or made for the call and speech the trimmed SpeechResult.
inputTurn2(state, speech) ==
    LET pushed == IF speech # ""
                  THEN [state EXCEPT !.transcript = Append(@, speech)]
                  ELSE state
        data == IF speech = "" THEN pushed.data
                ELSE categoryData2(pushed.data, speech)
        after == [pushed EXCEPT !.data = data]
    IN  IF speech = "" THEN [state |-> pushed, say |-> DidntCatch2]
        ELSE IF ~Truthy(data, "service_category")
             THEN [state |-> after, say |-> CategoryRePrompt2]
        ELSE IF ~Truthy(data, "service_type")
             THEN [state |-> after,
                   say |-> IF data["service_category"] = "domestic"
                           THEN DomesticTypePrompt2 ELSE CommercialTypePrompt2]
        ELSE [state |-> after, say |-> PropertyPrompt2]

\* POST /call/start
CallStart2(callSid) ==
    /\ draft = "part_000"
    /\ callState' = Put(callState, callSid,
                        [stage |-> "start", transcript |-> <<>>,
                         data |-> EmptyObject])
    /\ prompt' = Greeting2
    /\ response' = SayOf2[Greeting2]
    /\ UNCHANGED <<draft, loop>>

\* POST /call/input
CallInput2(callSid, SpeechResult) ==
    /\ draft = "part_000"
    /\ LET speech == SpeechOf[SpeechResult]
           state == IF callSid \in DOMAIN callState THEN callState[callSid]
                    ELSE [stage |-> "start", transcript |-> <<>>,
                          data |-> EmptyObject]
           out == inputTurn2(state, speech)
       IN  /\ callState' = Put(callState, callSid, out.state)
           /\ prompt' = out.say
           /\ response' = SayOf2[out.say]
    /\ UNCHANGED <<draft, loop>>

(***************************************************************************)
(* The specification: one of the two drafts serves the requests of the     *)
(* transport, in any order and with any of the texts.                      *)
(***************************************************************************)
\* The number of non-empty turns the call has had since it was (re)started.
TurnsOf(callSid) ==
    IF callSid \in DOMAIN callState THEN Len(callState[callSid].transcript) ELSE 0

\* The turn keeps the transcript within the bound.
WithinBound(callSid, SpeechResult) ==
    SpeechOf[SpeechResult] = "" \/ TurnsOf(callSid) < MaxTurns

\* No object allocated, no request received, no handler running.
LoopInit ==
    [heap |-> <<>>, map |-> EmptyObject, reqs |-> <<>>, running |-> 0,
     base |-> EmptyObject, from |-> 1, overlap |-> FALSE]

Init ==
    /\ draft \in Drafts
    /\ callState = EmptyObject
    /\ prompt = ""
    /\ response = NoResponse
    /\ loop = LoopInit

Next ==
    \/ \E callSid \in CallSids : CallStart(callSid)
    \/ \E callSid \in CallSids, SpeechResult \in Texts :
           WithinBound(callSid, SpeechResult) /\ CallInput(callSid, SpeechResult)
    \/ \E callSid \in CallSids : CallStart2(callSid)
    \/ \E callSid \in CallSids, SpeechResult \in Texts :
           WithinBound(callSid, SpeechResult) /\ CallInput2(callSid, SpeechResult)

Spec == Init /\ [][Next]_vars

(***************************************************************************)
(* Two calls in progress at once: the requests of the two calls arrive in  *)
(* any interleaving.                                                       *)
(***************************************************************************)
WithinCallsBound(SpeechResult) ==
    SpeechOf[SpeechResult] = "" \/ TurnsOf("CA1") + TurnsOf("CA2") < MaxCallTurns

NextCalls ==
    \/ \E callSid \in TwoCalls : CallStart(callSid)
    \/ \E callSid \in TwoCalls, SpeechResult \in Texts :
           WithinCallsBound(SpeechResult) /\ CallInput(callSid, SpeechResult)
    \/ \E callSid \in TwoCalls : CallStart2(callSid)
    \/ \E callSid \in TwoCalls, SpeechResult \in Texts :
           WithinCallsBound(SpeechResult) /\ CallInput2(callSid, SpeechResult)

SpecCalls == Init /\ [][NextCalls]_vars

(***************************************************************************)
(* The sanitizer as a function of the text: sayGather applied to any       *)
(* system-authored string.                                                 *)
(***************************************************************************)
MarkerForms ==
    {"$", "usd", "USD", "Usd", "dollar", "Dollars", "DOLLAR", "bucks", "Bucks",
     "pounds", "GBP", "us d", "dolar", "buck"}
Before == {"", "That is ", "Sorry, "}
After == {"", " 50", " only."}

\* System-authored strings: every prompt of the two drafts, the empty
\* string, and sentences with and without a currency marker.
SystemTexts ==
    Prompts \cup Prompts2 \cup {""}
        \cup {b \o m \o a : b \in Before, m \in MarkerForms, a \in After}

SayOfText == [text \in SystemTexts |-> sayGather(text)]
SayOfText2 == [text \in SystemTexts |-> sayGather2(text)]

\* sayGather(twiml, text) of src/server.js
Say(text) ==
    /\ draft = "server.js"
    /\ prompt' = text
    /\ response' = SayOfText[text]
    /\ UNCHANGED <<draft, callState, loop>>

\* sayGather(twiml, text) of src/unnamed/part_000
Say2(text) ==
    /\ draft = "part_000"
    /\ prompt' = text
    /\ response' = SayOfText2[text]
    /\ UNCHANGED <<draft, callState, loop>>

NextSay ==
    \/ \E text \in SystemTexts : Say(text)
    \/ \E text \in SystemTexts : Say2(text)

SpecSay == Init /\ [][NextSay]_vars

(***************************************************************************)
(* Vocabulary of the properties                                            *)
(***************************************************************************)
Has(callSid) == callSid \in DOMAIN callState

TranscriptOf(callSid) ==
    IF Has(callSid) THEN callState[callSid].transcript ELSE <<>>

\* The forward order of the stages; "start", the stage of a session that
\* getState creates, is no stage of the order.
StageRank(stage) ==
    CASE stage = "need_category" -> 1
      [] stage = "need_service_type" -> 2
      [] stage = "need_job_type" -> 3
      [] stage = "need_property_and_postcode" -> 4
      [] stage = "next" -> 5
      [] OTHER -> 0

CurrencyMarkers == {"$", "usd", "dollar", "bucks"}

\* The text holds a currency marker, in any letter case.
HasMarker(text) ==
    \E m \in CurrencyMarkers : \E i \in 1..Len(text) :
        /\ i + Len(m) - 1 <= Len(text)
        /\ toLowerCase(SubSeq(text, i, i + Len(m) - 1)) = m

\* The text holds one of the phrases, in any letter case.
HasAny(text, phrases) ==
    \E x \in phrases : \E i \in 1..Len(text) :
        /\ i + Len(x) - 1 <= Len(text)
        /\ toLowerCase(SubSeq(text, i, i + Len(x) - 1)) = x

DomesticCueOf == [speech \in Speeches |-> HasAny(speech, domesticHints)]
CommercialCueOf == [speech \in Speeches |-> HasAny(speech, commercialHints)]
MarkerOf == [speech \in Speeches |-> HasMarker(speech)]

(***************************************************************************)
(* C1                                                                      *)
(***************************************************************************)
\* C1 (as claimed): under src/server.js no request, /call/start included,
\* ever moves a session to an earlier stage of the order need_category <
\* need_service_type < need_job_type < need_property_and_postcode < next.
C1_StageNeverMovesBack ==
    [][ draft = "server.js" =>
          \A callSid \in CallSids :
              (Has(callSid) /\ callSid \in DOMAIN callState') =>
                  StageRank(callState'[callSid].stage)
                      >= StageRank(callState[callSid].stage) ]_vars

\* C1 (amended): no /call/input request ever moves a session to an earlier
\* stage; only /call/start, which creates the session anew, returns it to
\* need_category.
C1_InputNeverMovesBack ==
    [][ \A callSid \in CallSids :
          (Has(callSid) /\ StageRank(callState'[callSid].stage)
                              < StageRank(callState[callSid].stage))
          => /\ CallStart(callSid)
             /\ callState'[callSid].stage = "need_category"
             /\ \A SpeechResult \in Texts : ~CallInput(callSid, SpeechResult) ]_vars

\* A /call/input turn has moved a started session forward to the last stage.
C1_Witness ==
    /\ draft = "server.js"
    /\ \E callSid \in CallSids :
          /\ Has(callSid)
          /\ callState[callSid].stage = "next"
          /\ response = SayOf[RoomsPrompt]

(***************************************************************************)
(* C2                                                                      *)
(***************************************************************************)
\* C2 (as claimed): at stage need_category a turn whose text holds both a
\* domestic cue and a commercial cue leaves the stage at need_category and
\* writes no service_category.
C2_AmbiguousNeverAdvances ==
    [][ \A callSid \in CallSids, SpeechResult \in Texts :
          LET speech == SpeechOf[SpeechResult]
          IN  ( /\ Has(callSid)
                /\ callState[callSid].stage = "need_category"
                /\ speech # ""
                /\ DomesticCueOf[speech] /\ CommercialCueOf[speech]
                /\ CallInput(callSid, SpeechResult) )
              => /\ callState'[callSid].stage = "need_category"
                 /\ "service_category" \notin DOMAIN callState'[callSid].data ]_vars

(***************************************************************************)
(* C3                                                                      *)
(***************************************************************************)
\* C3: in both drafts a turn with empty recognized text (none, or only
\* white space) leaves an existing session's stage, data and transcript as
\* they were, whatever the stage, creates a session with empty data and
\* transcript when there was none, and returns the draft's one generic
\* "didn't catch that" prompt.
C3_EmptyTurnChangesNothing ==
    [][ \A callSid \in CallSids, SpeechResult \in Texts :
          ( /\ SpeechOf[SpeechResult] = ""
            /\ (CallInput(callSid, SpeechResult) \/ CallInput2(callSid, SpeechResult)) )
          => /\ Has(callSid) => callState'[callSid] = callState[callSid]
             /\ ~Has(callSid) =>
                    /\ callState'[callSid].transcript = <<>>
                    /\ callState'[callSid].data = EmptyObject
             /\ response' = IF draft = "server.js" THEN DidntCatch ELSE DidntCatch2 ]_vars

\* An empty turn was answered at a stage other than the first one.
C3_Witness ==
    /\ draft = "server.js"
    /\ response = DidntCatch
    /\ \E callSid \in CallSids :
          /\ Has(callSid)
          /\ callState[callSid].stage = "need_job_type"
          /\ Len(callState[callSid].transcript) = 2

(***************************************************************************)
(* C4                                                                      *)
(***************************************************************************)
\* C4 (as claimed): a turn with non-empty text appends exactly one entry to
\* the transcript, equal to the raw input text.
C4_AppendsRawText ==
    [][ \A callSid \in CallSids, SpeechResult \in Texts :
          ( /\ SpeechOf[SpeechResult] # ""
            /\ (CallInput(callSid, SpeechResult) \/ CallInput2(callSid, SpeechResult)) )
          => callState'[callSid].transcript
                 = Append(TranscriptOf(callSid), SpeechResult) ]_vars

\* The text without its leading and trailing white space, its letters as
\* they came.
Stripped(text) ==
    LET inner == {<<i, j>> \in (1..Len(text)) \X (1..Len(text)) :
                     /\ i <= j
                     /\ SubSeq(text, i, i) \notin WhiteSpace
                     /\ SubSeq(text, j, j) \notin WhiteSpace
                     /\ \A k \in 1..Len(text) :
                           (k < i \/ k > j) => SubSeq(text, k, k) \in WhiteSpace}
    IN  IF inner = {} THEN ""
        ELSE LET ij == CHOOSE ij \in inner : TRUE IN SubSeq(text, ij[1], ij[2])
StrippedOf == [SpeechResult \in Texts |-> Stripped(SpeechResult)]

\* C4 (amended): in both drafts, at every stage, a turn whose text is not
\* empty once its leading and trailing white space is removed appends
\* exactly one entry to the transcript, and the entry is that text without
\* the surrounding white space, its letter case kept.
C4_AppendsTrimmedText ==
    [][ \A callSid \in CallSids, SpeechResult \in Texts :
          ( /\ StrippedOf[SpeechResult] # ""
            /\ (CallInput(callSid, SpeechResult) \/ CallInput2(callSid, SpeechResult)) )
          => callState'[callSid].transcript
                 = Append(TranscriptOf(callSid), StrippedOf[SpeechResult]) ]_vars

\* A turn was appended by the default branch, after the last stage.
C4_Witness ==
    /\ draft = "server.js"
    /\ response = DefaultPrompt
    /\ \E callSid \in CallSids :
          /\ Has(callSid)
          /\ callState[callSid].stage = "next"
          /\ Len(callState[callSid].transcript) = 4
          /\ callState[callSid].transcript[1] = "I need someone for my flat"

(***************************************************************************)
(* C5                                                                      *)
(***************************************************************************)
\* C5: whatever system-authored string is handed to sayGather, the text
\* said is the draft's fixed pounds-only clarification when the string holds
\* "$", "usd", "dollar" or "bucks" in any letter case, and the string itself
\* when it holds none of them; the text said never holds a marker.
C5_SanitizationTotal ==
    /\ response = IF HasMarker(prompt)
                  THEN (IF draft = "server.js" THEN GbpClarification
                        ELSE GbpClarification2)
                  ELSE prompt
    /\ ~HasMarker(response)

\* A string with a marker in capitals was replaced by the clarification.
C5_Witness ==
    /\ draft = "server.js"
    /\ prompt = "That is USD 50"
    /\ response = GbpClarification

(***************************************************************************)
(* C6                                                                      *)
(***************************************************************************)
DirectWords == {"domestic", "commercial"}
DirectWordOf == [speech \in Speeches |-> HasAny(speech, DirectWords)]

\* C6: a turn whose caller text holds a currency marker is never answered
\* with the pounds-only clarification, at any stage, and at stage
\* need_category such a text with no category cue leaves the session's stage
\* and data as they were.
C6_CallerSpeechNeverSanitized ==
    [][ \A callSid \in CallSids, SpeechResult \in Texts :
          LET speech == SpeechOf[SpeechResult]
          IN  ( /\ speech # ""
                /\ MarkerOf[speech]
                /\ (CallInput(callSid, SpeechResult) \/ CallInput2(callSid, SpeechResult)) )
              => /\ response' \notin {GbpClarification, GbpClarification2}
                 /\ ( /\ draft = "server.js"
                      /\ Has(callSid)
                      /\ callState[callSid].stage = "need_category"
                      /\ ~DomesticCueOf[speech] /\ ~CommercialCueOf[speech]
                      /\ ~DirectWordOf[speech] )
                    => /\ callState'[callSid].stage = "need_category"
                       /\ callState'[callSid].data = callState[callSid].data ]_vars

\* The caller spoke of dollars at stage need_category and was asked the
\* category question again.
C6_Witness ==
    /\ draft = "server.js"
    /\ response = CategoryRePrompt
    /\ \E callSid \in CallSids :
          /\ Has(callSid)
          /\ callState[callSid].stage = "need_category"
          /\ callState[callSid].transcript = <<"that'll be 50 dollars right?">>

(***************************************************************************)
(* C7                                                                      *)
(***************************************************************************)
\* The category the claimed rule extracts: the broad set that matches alone;
\* when neither broad set matches, the one of "domestic" and "commercial"
\* that is present alone; otherwise none.
ClaimedCategory(speech) ==
    LET d == HasAny(speech, domesticHints)
        c == HasAny(speech, commercialHints)
        dw == HasAny(speech, {"domestic"})
        cw == HasAny(speech, {"commercial"})
    IN  IF d /\ ~c THEN "domestic"
        ELSE IF c /\ ~d THEN "commercial"
        ELSE IF ~d /\ ~c /\ dw /\ ~cw THEN "domestic"
        ELSE IF ~d /\ ~c /\ cw /\ ~dw THEN "commercial"
        ELSE ""
ClaimedCategoryOf == [speech \in Speeches |-> ClaimedCategory(speech)]

\* C7 (as claimed): at stage need_category a non-empty turn writes the
\* category of the claimed rule, moves to need_service_type and asks that
\* category's service-type question; when the rule extracts nothing the
\* stage and the data stay as they were.
C7_CategoryExtraction ==
    [][ \A callSid \in CallSids, SpeechResult \in Texts :
          LET speech == SpeechOf[SpeechResult]
          IN  ( /\ Has(callSid)
                /\ callState[callSid].stage = "need_category"
                /\ speech # ""
                /\ CallInput(callSid, SpeechResult) )
              => IF ClaimedCategoryOf[speech] # ""
                 THEN /\ Get(callState'[callSid].data, "service_category")
                            = ClaimedCategoryOf[speech]
                      /\ callState'[callSid].stage = "need_service_type"
                      /\ response' = IF ClaimedCategoryOf[speech] = "commercial"
                                     THEN CommercialTypePrompt
                                     ELSE DomesticTypePrompt
                 ELSE /\ callState'[callSid].stage = "need_category"
                      /\ callState'[callSid].data = callState[callSid].data ]_vars

(***************************************************************************)
(* C8                                                                      *)
(***************************************************************************)
\* C8: /call/start puts the session at need_category; a non-empty turn at
\* need_service_type stores its text as the service type of the session's
\* category and moves a commercial call to need_job_type and a domestic call
\* to need_property_and_postcode; "just a one-off" at need_job_type stores
\* job_type = one_time and moves to need_property_and_postcode; no turn
\* moves forward by more than one stage of the call's path; and a session
\* at need_job_type is always commercial.
C8_StageOrderByPath ==
    [][ \A callSid \in CallSids :
          /\ CallStart(callSid) => callState'[callSid].stage = "need_category"
          /\ (callSid \in DOMAIN callState'
                /\ callState'[callSid].stage = "need_job_type")
             => Get(callState'[callSid].data, "service_category") = "commercial"
          /\ \A SpeechResult \in Texts :
               LET speech == SpeechOf[SpeechResult]
                   old == callState[callSid]
                   new == callState'[callSid]
                   commercial == Get(old.data, "service_category") = "commercial"
               IN  ( /\ Has(callSid)
                     /\ speech # ""
                     /\ CallInput(callSid, SpeechResult) )
                   => /\ (old.stage = "need_category" /\ speech = "office")
                         => /\ new.stage = "need_service_type"
                            /\ Get(new.data, "service_category") = "commercial"
                      /\ (old.stage = "need_service_type" /\ commercial)
                         => /\ new.stage = "need_job_type"
                            /\ Get(new.data, "commercial_service_type") = speech
                      /\ (old.stage = "need_service_type" /\ ~commercial)
                         => /\ new.stage = "need_property_and_postcode"
                            /\ Get(new.data, "domestic_service_type") = speech
                            /\ "job_type" \notin DOMAIN new.data
                      /\ (old.stage = "need_job_type" /\ speech = "just a one-off")
                         => /\ new.stage = "need_property_and_postcode"
                            /\ Get(new.data, "job_type") = "one_time"
                      /\ new.stage # old.stage
                         => \/ StageRank(new.stage) = StageRank(old.stage) + 1
                            \/ /\ old.stage = "need_service_type"
                               /\ new.stage = "need_property_and_postcode"
                               /\ ~commercial ]_vars

\* The commercial call of the scenario, after its third turn.
C8_Witness ==
    /\ draft = "server.js"
    /\ \E callSid \in CallSids :
          /\ Has(callSid)
          /\ callState[callSid].stage = "need_property_and_postcode"
          /\ callState[callSid].transcript = <<"office", "deep clean", "just a one-off">>
          /\ Get(callState[callSid].data, "service_category") = "commercial"
          /\ Get(callState[callSid].data, "commercial_service_type") = "deep clean"
          /\ Get(callState[callSid].data, "job_type") = "one_time"

(***************************************************************************)
(* C9                                                                      *)
(***************************************************************************)
\* C9 (as claimed): the first /call/input for a callId with no session
\* leaves the session that the same turn leaves after a /call/start: made at
\* need_category with empty data and transcript, then put through the
\* category rule.
C9_LazySessionLikeStarted ==
    [][ \A callSid \in CallSids, SpeechResult \in Texts :
          (~Has(callSid) /\ CallInput(callSid, SpeechResult))
          => LET speech == SpeechOf[SpeechResult]
                 new == callState'[callSid]
             IN  /\ new.transcript = IF speech = "" THEN <<>> ELSE <<speech>>
                 /\ StageRank(new.stage) >= 1
                 /\ (speech # "" /\ ClaimedCategoryOf[speech] # "")
                    => /\ new.stage = "need_service_type"
                       /\ Get(new.data, "service_category")
                              = ClaimedCategoryOf[speech] ]_vars

(***************************************************************************)
(* C10                                                                     *)
(***************************************************************************)
OneTimePhrases == {"one", "once", "one-off", "one off"}
RegularPhrases == {"ongoing", "regular", "weekly", "monthly", "recurring"}
BothCadencesOf ==
    [speech \in Speeches |->
        HasAny(speech, OneTimePhrases) /\ HasAny(speech, RegularPhrases)]

\* C10 (as claimed): at stage need_job_type a turn whose text holds both a
\* one-time phrase and a regular phrase leaves the stage at need_job_type,
\* writes no job_type and returns the job-type re-prompt.
C10_AmbiguousCadenceFails ==
    [][ \A callSid \in CallSids, SpeechResult \in Texts :
          LET speech == SpeechOf[SpeechResult]
          IN  ( /\ Has(callSid)
                /\ callState[callSid].stage = "need_job_type"
                /\ speech # ""
                /\ BothCadencesOf[speech]
                /\ CallInput(callSid, SpeechResult) )
              => /\ callState'[callSid].stage = "need_job_type"
                 /\ "job_type" \notin DOMAIN callState'[callSid].data
                 /\ response' = JobTypeRePrompt ]_vars

(***************************************************************************)
(* C11                                                                     *)
(***************************************************************************)
CategoryCueOf ==
    [speech \in Speeches |->
        DomesticCueOf[speech] \/ CommercialCueOf[speech] \/ DirectWordOf[speech]]
CadenceCueOf ==
    [speech \in Speeches |-> HasAny(speech, OneTimePhrases \cup RegularPhrases)]

\* C11: a non-empty turn whose text holds no cue of the current stage
\* leaves the session's stage and data as they were and is answered with
\* that stage's own re-prompt: the category question at need_category, the
\* job-type confirmation at need_job_type.
C11_NoCueRePrompts ==
    [][ \A callSid \in CallSids, SpeechResult \in Texts :
          LET speech == SpeechOf[SpeechResult]
              old == callState[callSid]
              new == callState'[callSid]
          IN  ( /\ Has(callSid)
                /\ speech # ""
                /\ CallInput(callSid, SpeechResult) )
              => /\ (old.stage = "need_category" /\ ~CategoryCueOf[speech])
                    => /\ new.stage = old.stage
                       /\ new.data = old.data
                       /\ response' = CategoryRePrompt
                 /\ (old.stage = "need_job_type" /\ ~CadenceCueOf[speech])
                    => /\ new.stage = old.stage
                       /\ new.data = old.data
                       /\ response' = JobTypeRePrompt ]_vars

\* A text with no cadence cue was answered at need_job_type with the
\* job-type confirmation.
C11_Witness ==
    /\ draft = "server.js"
    /\ response = JobTypeRePrompt
    /\ \E callSid \in CallSids :
          /\ Has(callSid)
          /\ callState[callSid].stage = "need_job_type"
          /\ callState[callSid].transcript = <<"office", "deep clean", "deep clean">>
          /\ "job_type" \notin DOMAIN callState[callSid].data

(***************************************************************************)
(* C12                                                                     *)
(***************************************************************************)
\* C12: in both drafts a /call/start or /call/input request for one callId
\* leaves the session of every other callId as it was (and creates none for
\* it), under every interleaving of the requests of two calls.
C12_CallsIndependent ==
    [][ \A a \in TwoCalls :
          ( \/ CallStart(a) \/ CallStart2(a)
            \/ \E SpeechResult \in Texts :
                  CallInput(a, SpeechResult) \/ CallInput2(a, SpeechResult) )
          => \A b \in TwoCalls \ {a} :
                IF b \in DOMAIN callState
                THEN b \in DOMAIN callState' /\ callState'[b] = callState[b]
                ELSE b \notin DOMAIN callState' ]_vars

\* Two calls in progress, each with a turn and a category of its own.
C12_Witness ==
    /\ draft = "server.js"
    /\ "CA1" \in DOMAIN callState /\ "CA2" \in DOMAIN callState
    /\ callState["CA1"].stage = "need_service_type"
    /\ callState["CA1"].transcript = <<"office">>
    /\ Get(callState["CA1"].data, "service_category") = "commercial"
    /\ callState["CA2"].stage = "need_service_type"
    /\ Get(callState["CA2"].data, "service_category") = "domestic"
    /\ callState["CA2"].transcript = <<"I need someone for my flat">>

(***************************************************************************)
(* C14                                                                     *)
(***************************************************************************)
\* C14 (as claimed): under src/server.js every session whose stage is not
\* the last one, a session made by a first /call/input included, has a
\* non-empty text that moves its stage.
C14_NeverStranded ==
    draft = "server.js" =>
        \A callSid \in CallSids :
            (Has(callSid) /\ callState[callSid].stage # "next")
            => \E speech \in Speeches \ {""} :
                  inputTurn(callState[callSid], speech).state.stage
                      # callState[callSid].stage

(***************************************************************************)
(* C15                                                                     *)
(***************************************************************************)
\* The data keys each stage is responsible for.
OwnedKeys(stage) ==
    CASE stage = "need_category" -> {"service_category"}
      [] stage = "need_service_type" ->
            {"service_type_raw", "domestic_service_type", "commercial_service_type"}
      [] stage = "need_job_type" -> {"job_type"}
      [] stage = "need_property_and_postcode" -> {"property_and_postcode_raw"}
      [] OTHER -> {}

\* C15: under src/server.js a /call/input turn adds or changes only data
\* keys owned by the stage the session was in when the turn began; every
\* other key keeps its value, none is removed, and no key is written at a
\* stage that owns none.
C15_OnlyOwnedKeysWritten ==
    [][ \A callSid \in CallSids, SpeechResult \in Texts :
          CallInput(callSid, SpeechResult)
          => LET oldData == IF Has(callSid) THEN callState[callSid].data
                            ELSE EmptyObject
                 oldStage == IF Has(callSid) THEN callState[callSid].stage
                             ELSE "start"
                 newData == callState'[callSid].data
             IN  /\ DOMAIN oldData \subseteq DOMAIN newData
                 /\ \A k \in DOMAIN newData :
                       k \notin OwnedKeys(oldStage)
                       => k \in DOMAIN oldData /\ newData[k] = oldData[k] ]_vars

\* A commercial call through all four stages: every stage has written its
\* keys.
C15_Witness ==
    /\ draft = "server.js"
    /\ \E callSid \in CallSids :
          /\ Has(callSid)
          /\ callState[callSid].stage = "next"
          /\ DOMAIN callState[callSid].data =
                {"service_category", "service_type_raw", "domestic_service_type",
                 "commercial_service_type", "job_type", "property_and_postcode_raw"}

(***************************************************************************)
(* C16                                                                     *)
(***************************************************************************)
IsPrefix(s, t) == Len(s) <= Len(t) /\ SubSeq(t, 1, Len(s)) = s

\* C16 (as claimed): over every operation, /call/start included, the
\* transcript before the operation is a prefix of the transcript after it.
C16_TranscriptAppendOnly ==
    [][ \A callSid \in CallSids :
          (Has(callSid) /\ callSid \in DOMAIN callState')
          => IsPrefix(callState[callSid].transcript,
                      callState'[callSid].transcript) ]_vars

\* C16 (amended): in both drafts the transcript is append-only over
\* /call/input: the transcript before a turn is a prefix of the transcript
\* after it, one entry longer for a non-empty turn and as long for an empty
\* one; /call/start empties it, so its length is the number of non-empty
\* turns since the call was last started (or first heard of).
C16_AppendOnlyBetweenStarts ==
    [][ \A callSid \in CallSids :
          /\ (CallStart(callSid) \/ CallStart2(callSid))
             => callState'[callSid].transcript = <<>>
          /\ \A SpeechResult \in Texts :
                (CallInput(callSid, SpeechResult) \/ CallInput2(callSid, SpeechResult))
                => /\ IsPrefix(TranscriptOf(callSid), callState'[callSid].transcript)
                   /\ Len(callState'[callSid].transcript)
                         = Len(TranscriptOf(callSid))
                             + (IF SpeechOf[SpeechResult] = "" THEN 0 ELSE 1) ]_vars

\* Three turns of the second draft, in the order they came.
C16_Witness ==
    /\ draft = "part_000"
    /\ \E callSid \in CallSids :
          /\ Has(callSid)
          /\ callState[callSid].transcript
                = <<"deep clean", "office", "just a one-off">>

(***************************************************************************)
(* C17                                                                     *)
(***************************************************************************)
\* C17: in both drafts, once a session's service_category is set, no
\* /call/input turn changes it, whatever its text.
C17_CategoryWriteOnce ==
    [][ \A callSid \in CallSids, SpeechResult \in Texts :
          ( /\ Has(callSid)
            /\ Truthy(callState[callSid].data, "service_category")
            /\ (CallInput(callSid, SpeechResult) \/ CallInput2(callSid, SpeechResult)) )
          => Get(callState'[callSid].data, "service_category")
                 = callState[callSid].data["service_category"] ]_vars

\* The second draft heard a commercial cue after the category was set to
\* domestic.
C17_Witness ==
    /\ draft = "part_000"
    /\ \E callSid \in CallSids :
          /\ Has(callSid)
          /\ callState[callSid].transcript = <<"I need someone for my flat", "office">>
          /\ Get(callState[callSid].data, "service_category") = "domestic"

(***************************************************************************)
(* C18                                                                     *)
(***************************************************************************)
\* C18: under src/server.js the stage of a session tells which fields it
\* has. Past need_category the category is domestic or commercial; at
\* need_job_type it is commercial; past need_service_type exactly one of
\* the two service-type fields is non-empty, the one of the category;
\* job_type, when present, is one_time or regular, is present on every
\* commercial session past need_job_type and on no domestic session.
C18_StageDeterminesFields ==
    draft = "server.js" =>
        \A callSid \in CallSids :
            Has(callSid) =>
                LET stage == callState[callSid].stage
                    data == callState[callSid].data
                    category == Get(data, "service_category")
                IN  /\ StageRank(stage) > 1 => category \in {"domestic", "commercial"}
                    /\ stage = "need_job_type" => category = "commercial"
                    /\ StageRank(stage) > 2 =>
                          /\ Truthy(data, "domestic_service_type")
                                # Truthy(data, "commercial_service_type")
                          /\ Truthy(data, "commercial_service_type")
                                <=> category = "commercial"
                    /\ "job_type" \in DOMAIN data =>
                          /\ data["job_type"] \in {"one_time", "regular"}
                          /\ category = "commercial"
                    /\ (category = "commercial" /\ StageRank(stage) > 3)
                          => "job_type" \in DOMAIN data

\* A commercial call past need_job_type with an ongoing cadence.
C18_Witness ==
    /\ draft = "server.js"
    /\ \E callSid \in CallSids :
          /\ Has(callSid)
          /\ callState[callSid].stage = "need_property_and_postcode"
          /\ Get(callState[callSid].data, "service_category") = "commercial"
          /\ Get(callState[callSid].data, "job_type") = "regular"
          /\ Get(callState[callSid].data, "domestic_service_type") = ""

(***************************************************************************)
(* C19                                                                     *)
(***************************************************************************)
\* C19 (as claimed): at stage "next" every /call/input turn leaves the stage
\* and the data as they were, appends at most the turn's text to the
\* transcript, and is answered with the default postcode prompt.
C19_NextAbsorbing ==
    [][ \A callSid \in CallSids, SpeechResult \in Texts :
          ( /\ Has(callSid)
            /\ callState[callSid].stage = "next"
            /\ CallInput(callSid, SpeechResult) )
          => /\ callState'[callSid].stage = "next"
             /\ callState'[callSid].data = callState[callSid].data
             /\ response' = DefaultPrompt ]_vars

\* C19 (amended): at stage "next" every /call/input turn leaves the stage
\* and the data as they were; a non-empty turn only appends its text to the
\* transcript and is answered with the default postcode prompt; an empty
\* turn changes nothing and is answered with the generic re-prompt.
C19_NextAbsorbingNonEmpty ==
    [][ \A callSid \in CallSids, SpeechResult \in Texts :
          LET speech == SpeechOf[SpeechResult]
              old == callState[callSid]
              new == callState'[callSid]
          IN  ( /\ Has(callSid)
                /\ old.stage = "next"
                /\ CallInput(callSid, SpeechResult) )
              => /\ new.stage = "next"
                 /\ new.data = old.data
                 /\ speech # "" => /\ new.transcript = Append(old.transcript, speech)
                                   /\ response' = DefaultPrompt
                 /\ speech = "" => /\ new.transcript = old.transcript
                                   /\ response' = DidntCatch ]_vars

\* A domestic call at "next" whose fourth turn got the default prompt.
C19_Witness ==
    /\ draft = "server.js"
    /\ response = DefaultPrompt
    /\ \E callSid \in CallSids :
          /\ Has(callSid)
          /\ callState[callSid].stage = "next"
          /\ Get(callState[callSid].data, "service_category") = "domestic"
          /\ Get(callState[callSid].data, "property_and_postcode_raw") = "deep clean"
          /\ callState[callSid].transcript[4] = "home office"

(***************************************************************************)
(* C20                                                                     *)
(***************************************************************************)
\* C20: in the second draft the stage of a session is always "start" and
\* service_type is never written, so once service_category is set every
\* non-empty turn is answered with the service-type question of that
\* category, and the property/postcode prompt is never returned.
C20_SecondDraftStopsAtServiceType ==
    [][ draft = "part_000" =>
          /\ response' # PropertyPrompt2
          /\ \A callSid \in DOMAIN callState' :
                /\ callState'[callSid].stage = "start"
                /\ "service_type" \notin DOMAIN callState'[callSid].data
          /\ \A callSid \in CallSids, SpeechResult \in Texts :
                ( /\ Has(callSid)
                  /\ Truthy(callState[callSid].data, "service_category")
                  /\ SpeechOf[SpeechResult] # ""
                  /\ CallInput2(callSid, SpeechResult) )
                => response' = IF callState[callSid].data["service_category"] = "domestic"
                               THEN DomesticTypePrompt2
                               ELSE CommercialTypePrompt2 ]_vars

\* The second draft asked the commercial service-type question a third time.
C20_Witness ==
    /\ draft = "part_000"
    /\ response = CommercialTypePrompt2
    /\ \E callSid \in CallSids :
          /\ Has(callSid)
          /\ callState[callSid].transcript
                = <<"office", "deep clean", "I need someone for my flat">>
          /\ callState[callSid].stage = "start"

(***************************************************************************)
(* The handlers on the event loop.  A request that arrives waits until the *)
(* loop is free; its handler then runs statement by statement, and the     *)
(* loop takes up another handler only when the running one has returned or *)
(* is suspended at an await.  The sessions are objects: loop.heap holds    *)
(* them, loop.map is the Map callState (CallSid -> object), a handler's    *)
(* ref is the object its const state is bound to, and callState is the     *)
(* Map read through the heap.                                              *)
(***************************************************************************)
\* Mutant of AwaitPoints: the handler awaits after it has read the session.
AwaitPointsAfterGetState == {"got"}

\* The positions of the /call/input handlers at which the handler is
\* suspended: both are declared async and neither contains an await.
AwaitPoints == {}

\* The Map callState, each session read through the heap.
View(heap, map) == [callSid \in DOMAIN map |-> heap[map[callSid]]]

\* The session /call/start sets.
startSession ==
    IF draft = "server.js"
    THEN [transcript |-> <<>>, stage |-> "need_category", data |-> EmptyObject]
    ELSE [stage |-> "start", transcript |-> <<>>, data |-> EmptyObject]

\* The session a first /call/input makes.
lazySession == [transcript |-> <<>>, stage |-> "start", data |-> EmptyObject]

\* src/server.js /call/input after the push: the empty-input branch and the
\* stage dispatch.
respond(state, speech) ==
    IF speech = "" THEN [state |-> state, say |-> DidntCatch]
    ELSE IF state.stage = "need_category" THEN categoryStage(state, speech)
    ELSE IF state.stage = "need_service_type" THEN serviceTypeStage(state, speech)
    ELSE IF state.stage = "need_job_type" THEN jobTypeStage(state, speech)
    ELSE IF state.stage = "need_property_and_postcode" THEN propertyStage(state, speech)
    ELSE [state |-> state, say |-> DefaultPrompt]

\* src/unnamed/part_000 /call/input after callState.set: the empty-input
\* branch, the category detection and the choice of the prompt.
respond2(state, speech) ==
    LET data == categoryData2(state.data, speech)
        after == [state EXCEPT !.data = data]
    IN  IF speech = "" THEN [state |-> state, say |-> DidntCatch2]
        ELSE IF ~Truthy(data, "service_category")
             THEN [state |-> after, say |-> CategoryRePrompt2]
        ELSE IF ~Truthy(data, "service_type")
             THEN [state |-> after,
                   say |-> IF data["service_category"] = "domestic"
                           THEN DomesticTypePrompt2 ELSE CommercialTypePrompt2]
        ELSE [state |-> after, say |-> PropertyPrompt2]

AllDone == \A i \in 1..Len(loop.reqs) : loop.reqs[i].pc = "done"

\* A request reaches the server: it waits for the loop.  A request that
\* arrives while another is waiting or is being handled overlaps with it.
Arrive(op, callSid, SpeechResult) ==
    /\ Len(loop.reqs) < MaxRequests
    /\ loop' = [loop EXCEPT
                   !.reqs = Append(@, [op |-> op, callSid |-> callSid,
                                       SpeechResult |-> SpeechResult,
                                       pc |-> "pending", ref |-> 0, say |-> ""]),
                   !.base = IF AllDone THEN callState ELSE @,
                   !.from = IF AllDone THEN Len(loop.reqs) + 1 ELSE @,
                   !.overlap = @ \/ ~AllDone]
    /\ UNCHANGED <<draft, callState, prompt, response>>

\* A POST /call/start arrives
RequestStart(callSid) == Arrive("start", callSid, "")

\* A POST /call/input arrives
RequestInput(callSid, SpeechResult) == Arrive("input", callSid, SpeechResult)

\* The loop may run the next statement of the handler of request i.
MayRun(i, pc) ==
    /\ i \in 1..Len(loop.reqs)
    /\ loop.reqs[i].pc = pc
    /\ loop.running \in {0, i}

\* The handler is suspended at pc, or goes on running.
RunningAt(i, pc) == IF pc \in AwaitPoints THEN 0 ELSE i

\* POST /call/start: the whole handler, which has one statement that
\* touches the Map: callState.set(callSid, a new session).
RunCallStart(i) ==
    /\ MayRun(i, "pending")
    /\ loop.reqs[i].op = "start"
    /\ LET heap == Append(loop.heap, startSession)
           map == Put(loop.map, loop.reqs[i].callSid, Len(heap))
           say == IF draft = "server.js" THEN Greeting ELSE Greeting2
       IN  /\ loop' = [loop EXCEPT !.heap = heap, !.map = map,
                                   !.reqs[i].pc = "done", !.reqs[i].say = say,
                                   !.running = 0]
           /\ callState' = View(heap, map)
           /\ prompt' = say
           /\ response' = IF draft = "server.js" THEN SayOf[say] ELSE SayOf2[say]
    /\ UNCHANGED draft

\* POST /call/input, up to const state = ...: getState(callSid) of
\* src/server.js puts the session it makes in the Map; callState.get(callSid)
\* || {...} of src/unnamed/part_000 makes an object the Map does not hold.
RunGetState(i) ==
    /\ MayRun(i, "pending")
    /\ loop.reqs[i].op = "input"
    /\ LET callSid == loop.reqs[i].callSid
           found == callSid \in DOMAIN loop.map
           heap == IF found THEN loop.heap ELSE Append(loop.heap, lazySession)
           ref == IF found THEN loop.map[callSid] ELSE Len(heap)
           map == IF ~found /\ draft = "server.js"
                  THEN Put(loop.map, callSid, ref) ELSE loop.map
       IN  /\ loop' = [loop EXCEPT !.heap = heap, !.map = map,
                                   !.reqs[i].pc = "got", !.reqs[i].ref = ref,
                                   !.running = RunningAt(i, "got")]
           /\ callState' = View(heap, map)
    /\ UNCHANGED <<draft, prompt, response>>

\* POST /call/input: if (speech) state.transcript.push(speech), and in
\* src/unnamed/part_000 callState.set(callSid, state).
RunPush(i) ==
    /\ MayRun(i, "got")
    /\ LET req == loop.reqs[i]
           heap == [loop.heap EXCEPT
                       ![req.ref] = pushSpeech(@, SpeechOf[req.SpeechResult])]
           map == IF draft = "part_000" THEN Put(loop.map, req.callSid, req.ref)
                  ELSE loop.map
       IN  /\ loop' = [loop EXCEPT !.heap = heap, !.map = map,
                                   !.reqs[i].pc = "pushed",
                                   !.running = RunningAt(i, "pushed")]
           /\ callState' = View(heap, map)
    /\ UNCHANGED <<draft, prompt, response>>

\* POST /call/input: the rest of the handler, to res.send.
RunRespond(i) ==
    /\ MayRun(i, "pushed")
    /\ LET req == loop.reqs[i]
           speech == SpeechOf[req.SpeechResult]
           out == IF draft = "server.js" THEN respond(loop.heap[req.ref], speech)
                  ELSE respond2(loop.heap[req.ref], speech)
           heap == [loop.heap EXCEPT ![req.ref] = out.state]
       IN  /\ loop' = [loop EXCEPT !.heap = heap,
                                   !.reqs[i].pc = "done", !.reqs[i].say = out.say,
                                   !.running = 0]
           /\ callState' = View(heap, loop.map)
           /\ prompt' = out.say
           /\ response' = IF draft = "server.js" THEN SayOf[out.say]
                          ELSE SayOf2[out.say]
    /\ UNCHANGED draft

NextLoop ==
    \/ \E callSid \in CallSids : RequestStart(callSid)
    \/ \E callSid \in CallSids, SpeechResult \in Texts :
           RequestInput(callSid, SpeechResult)
    \/ \E i \in 1..MaxRequests : RunCallStart(i)
    \/ \E i \in 1..MaxRequests : RunGetState(i)
    \/ \E i \in 1..MaxRequests : RunPush(i)
    \/ \E i \in 1..MaxRequests : RunRespond(i)

SpecLoop == Init /\ [][NextLoop]_vars

(***************************************************************************)
(* C13                                                                     *)
(***************************************************************************)
\* The Map and the prompt after one request handled alone, from the Map cs.
AloneTurn(cs, req) ==
    IF req.op = "start"
    THEN [cs |-> Put(cs, req.callSid, startSession),
          say |-> IF draft = "server.js" THEN Greeting ELSE Greeting2]
    ELSE LET speech == SpeechOf[req.SpeechResult]
             made == IF draft = "server.js" THEN getState(cs, req.callSid)
                     ELSE IF req.callSid \in DOMAIN cs THEN cs
                     ELSE Put(cs, req.callSid, lazySession)
             out == IF draft = "server.js" THEN inputTurn(made[req.callSid], speech)
                    ELSE inputTurn2(made[req.callSid], speech)
         IN  [cs |-> Put(made, req.callSid, out.state), say |-> out.say]

\* The orders in which the requests first..last can be handled one after
\* the other.
Orders(first, last) ==
    {order \in [1..(last - first + 1) -> first..last] :
        \A j, k \in DOMAIN order : j # k => order[j] # order[k]}

\* Handled one after the other in the given order from the Map cs, the
\* requests from position k on get the prompts they got and leave the Map
\* as it is now.
RECURSIVE OneAfterTheOther(_, _, _)
OneAfterTheOther(cs, order, k) ==
    IF k > Len(order) THEN cs = callState
    ELSE LET req == loop.reqs[order[k]]
             alone == AloneTurn(cs, req)
         IN  alone.say = req.say /\ OneAfterTheOther(alone.cs, order, k + 1)

\* C13: no handler is ever suspended between reading the session and
\* sending its response (the loop runs at most one handler, to its end), and
\* when every request received has been answered, overlapping ones
\* included, the sessions and the prompts returned are those of handling the
\* requests one after the other in some order: no transcript entry and no
\* field write is lost.
C13_RunToCompletion ==
    /\ \A i \in 1..Len(loop.reqs) :
          loop.reqs[i].pc \in {"got", "pushed"} => loop.running = i
    /\ (loop.reqs # <<>> /\ AllDone)
       => \E order \in Orders(loop.from, Len(loop.reqs)) :
             OneAfterTheOther(loop.base, order, 1)

\* Two /call/input requests for one call of the second draft that has no
\* session: the second arrived before the first was answered, and both
\* texts are in the transcript.
C13_Witness ==
    /\ draft = "part_000"
    /\ loop.overlap
    /\ Len(loop.reqs) = 2
    /\ AllDone
    /\ \A i \in 1..2 : loop.reqs[i].op = "input"
    /\ Has("CA1")
    /\ Len(callState["CA1"].transcript) = 2
    /\ Get(callState["CA1"].data, "service_category") = "commercial"

====
